---- MODULE Spec2Model ----
(***************************************************************************)
(* Model of samples/transfers/rs/src/main.rs: the idempotency-key          *)
(* generator, the payload assembly and the one-shot transfer submitter.    *)
(* Rust strings are TLA+ strings; byte strings are sequences of 0..255;    *)
(* a 32-bit word of the hash is a pair <<hi, lo>> of 16-bit halves.        *)
(***************************************************************************)
EXTENDS Integers, Sequences, FiniteSets, TLC

VARIABLES
    pc,               \* position of main / send_post_request
    run,              \* number of the current process run (1-based)
    day,              \* days elapsed on the UTC clock since ClockStart
    shipment_date,    \* main: let shipment_date
    items,            \* main: let items
    serial_numbers,   \* main: let serial_numbers
    idempotency_key,  \* main: let idempotency_key (moved into payload)
    payload,          \* main: let payload, <<>> before it is assembled
    json_payload,     \* main: let json_payload, <<>> before serialisation
    headers,          \* send_post_request: let mut headers
    requests,         \* requests issued by the current run
    pending,          \* indices of requests awaiting their response
    wire,             \* every request put on the wire, over all runs
    response,         \* <<>> or <<[status, body]>>, body <<>> until read
    stdout,           \* lines printed by the current run
    result,           \* "running", "Ok" or "Err": what main returned
    error,            \* "none" or the error main returned
    kargs,            \* arguments of the successive key-generator calls
    kkeys,            \* keys returned by the calls made so far
    kpc,              \* position inside the key-generator call in progress
    kdata,            \* the local data of generate_idempotency_key
    hasher            \* the bytes the local hasher has absorbed

mainVars == <<pc, run, day, shipment_date, items, serial_numbers, idempotency_key,
              payload, json_payload, headers, requests, pending, wire, response,
              stdout, result, error>>
keyVars == <<kargs, kkeys, kpc, kdata, hasher>>
vars == <<pc, run, day, shipment_date, items, serial_numbers, idempotency_key,
          payload, json_payload, headers, requests, pending, wire, response,
          stdout, result, error, kargs, kkeys, kpc, kdata, hasher>>

----------------------------------------------------------------------------
\* Bounds of the model

MaxRuns == 2
MaxDays == 2
MaxCalls == 2
MaxSerials == 2

----------------------------------------------------------------------------
\* Strings and bytes

AsciiPrintable == <<
    " ", "!", "\"", "#", "$", "%", "&", "'", "(", ")", "*", "+",
    ",", "-", ".", "/", "0", "1", "2", "3", "4", "5", "6", "7",
    "8", "9", ":", ";", "<", "=", ">", "?", "@", "A", "B", "C",
    "D", "E", "F", "G", "H", "I", "J", "K", "L", "M", "N", "O",
    "P", "Q", "R", "S", "T", "U", "V", "W", "X", "Y", "Z", "[",
    "\\", "]", "^", "_", "", "a", "b", "c", "d", "e", "f", "g",
    "h", "i", "j", "k", "l", "m", "n", "o", "p", "q", "r", "s",
    "t", "u", "v", "w", "x", "y", "z", "{", "|", "}", "~" >>

\* the byte of an ASCII character (a string of length 1); the table holds the
\* characters 32..126 in order, with "" in the place of the backquote (96)
Ord(c) == IF c = "\n" THEN 10
          ELSE IF c = "\t" THEN 9
          ELSE 31 + (CHOOSE i \in 1..95 : AsciiPrintable[i] = c)

\* str::as_bytes
AsBytes[s \in STRING] == [i \in 1..Len(s) |-> Ord(SubSeq(s, i, i))]

\* [String]::join(sep)
RECURSIVE Join(_, _)
Join(list, sep) == IF Len(list) = 0 THEN ""
                   ELSE IF Len(list) = 1 THEN list[1]
                   ELSE list[1] \o sep \o Join(Tail(list), sep)

----------------------------------------------------------------------------
\* SHA-256 (sha2::Sha256), FIPS 180-4

\* The steps of the hash are written as functions, f[x], rather than as
\* operators, F(x): a function is applied to the value of its argument, so
\* that each intermediate word is computed once.

\* bitwise and / xor of two 4-bit values, tabulated
RECURSIVE BitAnd(_, _), BitXor(_, _)
BitAnd(a, b) == IF a = 0 \/ b = 0 THEN 0
                ELSE (a % 2) * (b % 2) + 2 * BitAnd(a \div 2, b \div 2)
BitXor(a, b) == IF a = 0 THEN b ELSE IF b = 0 THEN a
                ELSE ((a + b) % 2) + 2 * BitXor(a \div 2, b \div 2)
AndTable == [a \in 0..15 |-> [b \in 0..15 |-> BitAnd(a, b)]]
XorTable == [a \in 0..15 |-> [b \in 0..15 |-> BitXor(a, b)]]

\* bitwise and / xor of two 16-bit values, nibble by nibble
And16[a \in Nat, b \in Nat] ==
    AndTable[a \div 4096][b \div 4096] * 4096
        + AndTable[(a \div 256) % 16][(b \div 256) % 16] * 256
        + AndTable[(a \div 16) % 16][(b \div 16) % 16] * 16
        + AndTable[a % 16][b % 16]
Xor16[a \in Nat, b \in Nat] ==
    XorTable[a \div 4096][b \div 4096] * 4096
        + XorTable[(a \div 256) % 16][(b \div 256) % 16] * 256
        + XorTable[(a \div 16) % 16][(b \div 16) % 16] * 16
        + XorTable[a % 16][b % 16]

Pow2 == <<2, 4, 8, 16, 32, 64, 128, 256, 512, 1024, 2048, 4096, 8192, 16384, 32768, 65536>>

\* a 32-bit word is <<hi, lo>>, both in 0..65535
Word == Nat \X Nat

WAnd[a \in Word, b \in Word] == <<And16[a[1], b[1]], And16[a[2], b[2]]>>
WXor[a \in Word, b \in Word] == <<Xor16[a[1], b[1]], Xor16[a[2], b[2]]>>
WXor3[a \in Word, b \in Word, c \in Word] ==
    <<Xor16[Xor16[a[1], b[1]], c[1]], Xor16[Xor16[a[2], b[2]], c[2]]>>
WNot[a \in Word] == <<65535 - a[1], 65535 - a[2]>>

\* wrapping_add of two, four and five words
WAdd[a \in Word, b \in Word] ==
    <<(a[1] + b[1] + ((a[2] + b[2]) \div 65536)) % 65536, (a[2] + b[2]) % 65536>>
WAdd4[a \in Word, b \in Word, c \in Word, d \in Word] ==
    <<(a[1] + b[1] + c[1] + d[1] + ((a[2] + b[2] + c[2] + d[2]) \div 65536)) % 65536,
      (a[2] + b[2] + c[2] + d[2]) % 65536>>
WAdd5[a \in Word, b \in Word, c \in Word, d \in Word, e \in Word] ==
    <<(a[1] + b[1] + c[1] + d[1] + e[1]
          + ((a[2] + b[2] + c[2] + d[2] + e[2]) \div 65536)) % 65536,
      (a[2] + b[2] + c[2] + d[2] + e[2]) % 65536>>

\* rotate right by 1..15 bits, and by any number of bits below 32
RotrSmall[a \in Word, n \in Nat] ==
    <<(a[1] \div Pow2[n]) + (a[2] % Pow2[n]) * Pow2[16 - n],
      (a[2] \div Pow2[n]) + (a[1] % Pow2[n]) * Pow2[16 - n]>>
Rotr[a \in Word, n \in Nat] ==
    IF n = 0 THEN a
    ELSE IF n < 16 THEN RotrSmall[a, n]
    ELSE IF n = 16 THEN <<a[2], a[1]>>
    ELSE RotrSmall[<<a[2], a[1]>>, n - 16]
\* shift right by 1..15 bits
Shr[a \in Word, n \in Nat] ==
    <<a[1] \div Pow2[n], (a[2] \div Pow2[n]) + (a[1] % Pow2[n]) * Pow2[16 - n]>>

BigSigma0[a \in Word] == WXor3[Rotr[a, 2], Rotr[a, 13], Rotr[a, 22]]
BigSigma1[a \in Word] == WXor3[Rotr[a, 6], Rotr[a, 11], Rotr[a, 25]]
SmallSigma0[a \in Word] == WXor3[Rotr[a, 7], Rotr[a, 18], Shr[a, 3]]
SmallSigma1[a \in Word] == WXor3[Rotr[a, 17], Rotr[a, 19], Shr[a, 10]]
Ch[e \in Word, f \in Word, g \in Word] == WXor[WAnd[e, f], WAnd[WNot[e], g]]
Maj[a \in Word, b \in Word, c \in Word] == WXor3[WAnd[a, b], WAnd[a, c], WAnd[b, c]]

K256 == <<
    <<17034, 12184>>, <<28983, 17553>>, <<46528, 64463>>, <<59829, 56229>>,
    <<14678, 49755>>, <<23025, 4593>>, <<37439, 33444>>, <<43804, 24277>>,
    <<55303, 43672>>, <<4739, 23297>>, <<9265, 34238>>, <<21772, 32195>>,
    <<29374, 23924>>, <<32990, 45566>>, <<39900, 1703>>, <<49563, 61812>>,
    <<58523, 27073>>, <<61374, 18310>>, <<4033, 40390>>, <<9228, 41420>>,
    <<11753, 11375>>, <<19060, 33962>>, <<23728, 43484>>, <<30457, 35034>>,
    <<38974, 20818>>, <<43057, 50797>>, <<45059, 10184>>, <<48985, 32711>>,
    <<50912, 3059>>, <<54695, 37191>>, <<1738, 25425>>, <<5161, 10599>>,
    <<10167, 2693>>, <<11803, 8504>>, <<19756, 28156>>, <<21304, 3347>>,
    <<25866, 29524>>, <<30314, 2747>>, <<33218, 51502>>, <<37490, 11397>>,
    <<41663, 59553>>, <<43034, 26187>>, <<49739, 35696>>, <<51052, 20899>>,
    <<53650, 59417>>, <<54937, 1572>>, <<62478, 13701>>, <<4202, 41072>>,
    <<6564, 49430>>, <<7735, 27656>>, <<10056, 30540>>, <<13488, 48309>>,
    <<14620, 3251>>, <<20184, 43594>>, <<23452, 51791>>, <<26670, 28659>>,
    <<29839, 33518>>, <<30885, 25455>>, <<33992, 30740>>, <<36039, 520>>,
    <<37054, 65530>>, <<42064, 27883>>, <<48889, 41975>>, <<50801, 30962>> >>

H256_256 == <<
    <<27145, 58983>>, <<47975, 44677>>, <<15470, 62322>>, <<42319, 62778>>,
    <<20750, 21119>>, <<39685, 26764>>, <<8067, 55723>>, <<23520, 52505>> >>

Zeros(n) == [i \in 1..n |-> 0]

\* big-endian 8-byte encoding of the bit length
LenBytes(bits) == <<0, 0, 0, 0, (bits \div 16777216) % 256, (bits \div 65536) % 256,
                    (bits \div 256) % 256, bits % 256>>

\* the message, the byte 0x80, zeros up to 56 mod 64, and the bit length
Sha256Pad[msg \in Seq(Nat)] ==
    msg \o <<128>> \o Zeros((119 - (Len(msg) % 64)) % 64) \o LenBytes(8 * Len(msg))

\* the sixteen big-endian words of block b of the padded message
BlockWords[p \in Seq(Nat), b \in Nat] ==
    [i \in 1..16 |->
        <<p[64 * (b - 1) + 4 * (i - 1) + 1] * 256 + p[64 * (b - 1) + 4 * (i - 1) + 2],
          p[64 * (b - 1) + 4 * (i - 1) + 3] * 256 + p[64 * (b - 1) + 4 * (i - 1) + 4]>>]

\* the schedule w extended by its next entry
Extend[w \in Seq(Word)] ==
    Append(w, WAdd4[SmallSigma1[w[Len(w) - 1]], w[Len(w) - 6],
                    SmallSigma0[w[Len(w) - 14]], w[Len(w) - 15]])

\* ... by its next eight entries
Extend8[w \in Seq(Word)] == Extend[Extend[Extend[Extend[Extend[Extend[Extend[Extend[w]]]]]]]]

\* the message schedule: the sixteen words of the block extended to 64
Schedule[blk \in Seq(Word)] == Extend8[Extend8[Extend8[Extend8[Extend8[Extend8[blk]]]]]]

\* the working state after a round, given its two temporaries
Rotate[s \in Seq(Word), t1 \in Word, t2 \in Word] ==
    <<WAdd[t1, t2], s[1], s[2], s[3], WAdd[s[4], t1], s[5], s[6], s[7]>>

\* one round on the working state s = <<a, b, c, d, e, f, g, h>>
Round[s \in Seq(Word), k \in Word, w \in Word] ==
    Rotate[s, WAdd5[s[8], BigSigma1[s[5]], Ch[s[5], s[6], s[7]], k, w],
              WAdd[BigSigma0[s[1]], Maj[s[1], s[2], s[3]]]]

\* the eight rounds t..t+7
Rounds8[s \in Seq(Word), w \in Seq(Word), t \in Nat] ==
    Round[Round[Round[Round[Round[Round[Round[Round[s,
        K256[t], w[t]], K256[t + 1], w[t + 1]], K256[t + 2], w[t + 2]],
        K256[t + 3], w[t + 3]], K256[t + 4], w[t + 4]], K256[t + 5], w[t + 5]],
        K256[t + 6], w[t + 6]], K256[t + 7], w[t + 7]]

\* the 64 rounds
Rounds64[s \in Seq(Word), w \in Seq(Word)] ==
    Rounds8[Rounds8[Rounds8[Rounds8[Rounds8[Rounds8[Rounds8[Rounds8[s,
        w, 1], w, 9], w, 17], w, 25], w, 33], w, 41], w, 49], w, 57]

\* the hash state h plus the working state s, word by word
AddState[h \in Seq(Word), s \in Seq(Word)] == [i \in 1..8 |-> WAdd[h[i], s[i]]]

Compress[h \in Seq(Word), blk \in Seq(Word)] == AddState[h, Rounds64[h, Schedule[blk]]]

Blocks[h \in Seq(Word), p \in Seq(Nat), b \in Nat] ==
    IF 64 * (b - 1) >= Len(p) THEN h
    ELSE Blocks[Compress[h, BlockWords[p, b]], p, b + 1]

\* the eight words of the hash state as 32 big-endian bytes
DigestBytes[h \in Seq(Word)] ==
    [i \in 1..32 |-> IF i % 2 = 1 THEN h[((i - 1) \div 4) + 1][(((i - 1) % 4) \div 2) + 1] \div 256
                     ELSE h[((i - 1) \div 4) + 1][(((i - 1) % 4) \div 2) + 1] % 256]

Sha256[msg \in Seq(Nat)] == DigestBytes[Blocks[H256_256, Sha256Pad[msg], 1]]

\* the hasher, as the bytes it has absorbed: Sha256::new(), update, finalize
Sha256New == <<>>
Sha256Update(h, bytes) == h \o bytes
Sha256Finalize(h) == Sha256[h]

HexChars == <<"0", "1", "2", "3", "4", "5", "6", "7",
              "8", "9", "a", "b", "c", "d", "e", "f">>

\* one byte as two lowercase hex digits
HexByte(b) == HexChars[(b \div 16) + 1] \o HexChars[(b % 16) + 1]

\* format!("{:x}", digest): every byte as two lowercase hex digits
RECURSIVE LowerHexRange(_, _, _)
LowerHexRange(bytes, lo, hi) ==
    IF lo > hi THEN ""
    ELSE IF lo = hi THEN HexByte(bytes[lo])
    ELSE LowerHexRange(bytes, lo, (lo + hi) \div 2)
            \o LowerHexRange(bytes, (lo + hi) \div 2 + 1, hi)
LowerHex[bytes \in Seq(Nat)] == LowerHexRange(bytes, 1, Len(bytes))

----------------------------------------------------------------------------
\* generate_idempotency_key

\* KeyData with transferee and transferor written in the other order
KeyDataSwapped(date, transferor, transferee, tracking_number, po_number, invoice_number, serials) ==
    date \o "\n" \o transferee \o "\n" \o transferor \o "\n" \o tracking_number \o "\n"
        \o po_number \o "\n" \o invoice_number \o "\n" \o Join(serials, "\n")

\* let data = format!("{}\n{}\n{}\n{}\n{}\n{}\n{}", ..., serial_numbers.join("\n"))
KeyData(date, transferor, transferee, tracking_number, po_number, invoice_number, serials) ==
    date \o "\n" \o transferor \o "\n" \o transferee \o "\n" \o tracking_number \o "\n"
        \o po_number \o "\n" \o invoice_number \o "\n" \o Join(serials, "\n")

generate_idempotency_key(date, transferor, transferee, tracking_number, po_number, invoice_number, serials) ==
    LET data == KeyData(date, transferor, transferee, tracking_number, po_number,
                        invoice_number, serials)
    IN LowerHex[Sha256Finalize(Sha256Update(Sha256New, AsBytes[data]))]

----------------------------------------------------------------------------
\* Program constants

USERNAME == "YOUR_USERNAME"
PASSWORD == "YOUR_PASSWORD"
API_URL == "https://cloud.fastbound.com/api/transfers"

\* the let-bound literals of main
Transferor == "1-23-456-78-9A-12345"
Transferee == "1-23-456-78-9B-54321"
TrackingNumber == "1Z999AA10123456784"
PoNumber == "PO123456"
InvoiceNumber == "INV98765"

\* Option<T>: <<>> is None, <<v>> is Some(v).  An f64 is held in hundredths.
HardcodedItems == <<
    [manufacturer |-> "Glock", importer |-> <<>>, country |-> "Austria",
     model |-> "G17", caliber |-> "9mm", item_type |-> "Pistol",
     serial |-> "ABC123456", sku |-> "GLK-G17", mpn |-> "G17MPN",
     upc |-> "123456789012", barrel_length |-> 448, overall_length |-> 803,
     cost |-> 50000, price |-> 65000, condition |-> "New",
     note |-> "Brand new firearm"],
    [manufacturer |-> "Smith & Wesson", importer |-> <<>>, country |-> "USA",
     model |-> "M&P Shield", caliber |-> "9mm", item_type |-> "Pistol",
     serial |-> "XYZ987654", sku |-> "S&W-SHIELD", mpn |-> "SHIELDMPN",
     upc |-> "987654321098", barrel_length |-> 310, overall_length |-> 610,
     cost |-> 45000, price |-> 60000, condition |-> "New",
     note |-> "Compact pistol"] >>

----------------------------------------------------------------------------
\* serde::Serialize as derived for Item and TransferPayload: the fields in
\* declaration order, each with its #[serde(rename = ...)] attribute if any

Plain(f) == [field |-> f, rename |-> <<>>]
Renamed(f, r) == [field |-> f, rename |-> <<r>>]

ItemFields == <<
    Plain("manufacturer"), Plain("importer"), Plain("country"), Plain("model"),
    Plain("caliber"), Renamed("item_type", "type"), Plain("serial"), Plain("sku"),
    Plain("mpn"), Plain("upc"), Plain("barrel_length"), Plain("overall_length"),
    Plain("cost"), Plain("price"), Plain("condition"), Plain("note") >>

PayloadFields == <<
    Renamed("schema", "$schema"), Plain("idempotency_key"), Plain("transferor"),
    Plain("transferee"), Plain("transferee_emails"), Plain("tracking_number"),
    Plain("po_number"), Plain("invoice_number"), Plain("acquire_type"),
    Plain("note"), Plain("items") >>

\* the key serde writes for a field: the rename if there is one, else the
\* Rust identifier (no rename_all attribute is present on either struct)
WireName(f) == IF f.rename = <<>> THEN f.field ELSE f.rename[1]

\* a JSON object is the sequence of its <<key, value>> members
ItemToJson(item) == [i \in 1..Len(ItemFields) |->
    <<WireName(ItemFields[i]), item[ItemFields[i].field]>>]

PayloadToJson(p) == [i \in 1..Len(PayloadFields) |->
    <<WireName(PayloadFields[i]),
      IF PayloadFields[i].field = "items"
      THEN [j \in 1..Len(p.items) |-> ItemToJson(p.items[j])]
      ELSE p[PayloadFields[i].field]>>]

JsonKeys(obj) == [i \in 1..Len(obj) |-> obj[i][1]]

----------------------------------------------------------------------------
\* The UTC clock and chrono's format("%Y-%m-%d")

ClockStart == [year |-> 2024, month |-> 12, dom |-> 31]

IsLeap(y) == (y % 4 = 0 /\ y % 100 # 0) \/ y % 400 = 0
DaysInMonth(y, m) == IF m = 2 THEN (IF IsLeap(y) THEN 29 ELSE 28)
                     ELSE IF m \in {4, 6, 9, 11} THEN 30 ELSE 31
NextDay(d) == IF d.dom < DaysInMonth(d.year, d.month)
              THEN [d EXCEPT !.dom = d.dom + 1]
              ELSE IF d.month < 12
              THEN [d EXCEPT !.month = d.month + 1, !.dom = 1]
              ELSE [year |-> d.year + 1, month |-> 1, dom |-> 1]

RECURSIVE DateAfter(_)
DateAfter(n) == IF n = 0 THEN ClockStart ELSE NextDay(DateAfter(n - 1))

RECURSIVE ZeroPad(_, _)
ZeroPad(str, width) == IF Len(str) >= width THEN str ELSE ZeroPad("0" \o str, width)

\* %Y: the year zero-padded to four digits, with a sign when it lies outside
\* 0..9999 (then written as by {:+05})
FormatYear(y) == IF y < 0 THEN "-" \o ZeroPad(ToString(0 - y), 4)
                 ELSE IF y > 9999 THEN "+" \o ToString(y)
                 ELSE ZeroPad(ToString(y), 4)

FormatDate(d) == FormatYear(d.year) \o "-" \o ZeroPad(ToString(d.month), 2)
                     \o "-" \o ZeroPad(ToString(d.dom), 2)

----------------------------------------------------------------------------
\* The Authorization header

Base64Alphabet == "ABCDEFGHIJKLMNOPQRSTUVWXYZabcdefghijklmnopqrstuvwxyz0123456789+/"
B64(n) == SubSeq(Base64Alphabet, n + 1, n + 1)

\* base64::engine::general_purpose::STANDARD.encode (with '=' padding)
\* the four characters of the group of (up to) three bytes starting at b[i]
Base64Group(b, i) ==
    LET left == Len(b) - i + 1
    IN IF left = 1
       THEN B64(b[i] \div 4) \o B64((b[i] % 4) * 16) \o "=="
       ELSE IF left = 2
       THEN B64(b[i] \div 4) \o B64((b[i] % 4) * 16 + (b[i + 1] \div 16))
                \o B64((b[i + 1] % 16) * 4) \o "="
       ELSE B64(b[i] \div 4) \o B64((b[i] % 4) * 16 + (b[i + 1] \div 16))
                \o B64((b[i + 1] % 16) * 4 + (b[i + 2] \div 64)) \o B64(b[i + 2] % 64)

\* the groups lo..hi, concatenated
RECURSIVE Base64Range(_, _, _)
Base64Range(b, lo, hi) ==
    IF lo > hi THEN ""
    ELSE IF lo = hi THEN Base64Group(b, 3 * (lo - 1) + 1)
    ELSE Base64Range(b, lo, (lo + hi) \div 2) \o Base64Range(b, (lo + hi) \div 2 + 1, hi)
Base64Encode[b \in Seq(Nat)] == Base64Range(b, 1, (Len(b) + 2) \div 3)

\* HeaderValue::from_str accepts visible ASCII, space and tab only
HeaderValueValid(str) == \A i \in 1..Len(str) :
    LET b == Ord(SubSeq(str, i, i)) IN (b >= 32 /\ b # 127) \/ b = 9

AuthorizationValue == "Basic " \o Base64Encode[AsBytes[USERNAME \o ":" \o PASSWORD]]

----------------------------------------------------------------------------
\* What the transport may answer

\* a success, the answer to rejected credentials, a conflict, a server error
\* and a code without a registered reason
HttpStatuses == {200, 401, 409, 500, 599}
ResponseBodies == {"OK", ""}

\* the registered status codes and their reason phrases (http::StatusCode)
ReasonPhrases ==
    { <<100, "Continue">>,
      <<101, "Switching Protocols">>,
      <<102, "Processing">>,
      <<103, "Early Hints">>,
      <<200, "OK">>,
      <<201, "Created">>,
      <<202, "Accepted">>,
      <<203, "Non Authoritative Information">>,
      <<204, "No Content">>,
      <<205, "Reset Content">>,
      <<206, "Partial Content">>,
      <<207, "Multi-Status">>,
      <<208, "Already Reported">>,
      <<226, "IM Used">>,
      <<300, "Multiple Choices">>,
      <<301, "Moved Permanently">>,
      <<302, "Found">>,
      <<303, "See Other">>,
      <<304, "Not Modified">>,
      <<305, "Use Proxy">>,
      <<307, "Temporary Redirect">>,
      <<308, "Permanent Redirect">>,
      <<400, "Bad Request">>,
      <<401, "Unauthorized">>,
      <<402, "Payment Required">>,
      <<403, "Forbidden">>,
      <<404, "Not Found">>,
      <<405, "Method Not Allowed">>,
      <<406, "Not Acceptable">>,
      <<407, "Proxy Authentication Required">>,
      <<408, "Request Timeout">>,
      <<409, "Conflict">>,
      <<410, "Gone">>,
      <<411, "Length Required">>,
      <<412, "Precondition Failed">>,
      <<413, "Payload Too Large">>,
      <<414, "URI Too Long">>,
      <<415, "Unsupported Media Type">>,
      <<416, "Range Not Satisfiable">>,
      <<417, "Expectation Failed">>,
      <<418, "I'm a teapot">>,
      <<421, "Misdirected Request">>,
      <<422, "Unprocessable Entity">>,
      <<423, "Locked">>,
      <<424, "Failed Dependency">>,
      <<425, "Too Early">>,
      <<426, "Upgrade Required">>,
      <<428, "Precondition Required">>,
      <<429, "Too Many Requests">>,
      <<431, "Request Header Fields Too Large">>,
      <<451, "Unavailable For Legal Reasons">>,
      <<500, "Internal Server Error">>,
      <<501, "Not Implemented">>,
      <<502, "Bad Gateway">>,
      <<503, "Service Unavailable">>,
      <<504, "Gateway Timeout">>,
      <<505, "HTTP Version Not Supported">>,
      <<506, "Variant Also Negotiates">>,
      <<507, "Insufficient Storage">>,
      <<508, "Loop Detected">>,
      <<510, "Not Extended">>,
      <<511, "Network Authentication Required">> }

\* StatusCode::canonical_reason, with the text Display prints when there is none
CanonicalReason(st) ==
    IF \E r \in ReasonPhrases : r[1] = st
    THEN (CHOOSE r \in ReasonPhrases : r[1] = st)[2]
    ELSE "<unknown status code>"

\* Display of reqwest::StatusCode: the code and its canonical reason
StatusDisplay(st) == ToString(st) \o " " \o CanonicalReason(st)

----------------------------------------------------------------------------
\* main and send_post_request

MainInit ==
    /\ pc = "start"
    /\ run = 1
    /\ day = 0
    /\ shipment_date = ""
    /\ items = <<>>
    /\ serial_numbers = <<>>
    /\ idempotency_key = <<>>
    /\ payload = <<>>
    /\ json_payload = <<>>
    /\ headers = <<>>
    /\ requests = <<>>
    /\ pending = {}
    /\ wire = <<>>
    /\ response = <<>>
    /\ stdout = <<>>
    /\ result = "running"
    /\ error = "none"

\* no call of the key generator made yet
KeyIdle == kkeys = <<>> /\ kpc = "format" /\ kdata = "" /\ hasher = <<>>

Init == MainInit /\ kargs = <<>> /\ KeyIdle

\* main, lines 98-142: read the clock, bind the literals, build the items
Begin(elapsed) ==
    /\ pc = "start"
    /\ day + elapsed <= MaxDays
    /\ day' = day + elapsed
    /\ shipment_date' = FormatDate(DateAfter(day + elapsed))
    /\ items' = HardcodedItems
    /\ pc' = "key"
    /\ UNCHANGED <<run, serial_numbers, idempotency_key, payload, json_payload,
                   headers, requests, pending, wire, response, stdout, result, error>>
    /\ UNCHANGED keyVars

\* ComputeKey with the serial numbers collected in reverse item order
ComputeKeyReversed ==
    /\ pc = "key"
    /\ serial_numbers' = [i \in 1..Len(items) |-> items[Len(items) + 1 - i].serial]
    /\ idempotency_key' = <<generate_idempotency_key(shipment_date, Transferor,
                               Transferee, TrackingNumber, PoNumber, InvoiceNumber,
                               serial_numbers')>>
    /\ pc' = "assemble"
    /\ UNCHANGED <<run, day, shipment_date, items, payload, json_payload, headers,
                   requests, pending, wire, response, stdout, result, error>>
    /\ UNCHANGED keyVars

\* main, lines 144-153
ComputeKey ==
    /\ pc = "key"
    /\ serial_numbers' = [i \in 1..Len(items) |-> items[i].serial]
    /\ idempotency_key' = <<generate_idempotency_key(shipment_date, Transferor,
                               Transferee, TrackingNumber, PoNumber, InvoiceNumber,
                               serial_numbers')>>
    /\ pc' = "assemble"
    /\ UNCHANGED <<run, day, shipment_date, items, payload, json_payload, headers,
                   requests, pending, wire, response, stdout, result, error>>
    /\ UNCHANGED keyVars

\* main, lines 155-171
AssemblePayload ==
    /\ pc = "assemble"
    /\ payload' = << [schema |-> "https://schemas.fastbound.org/transfers-push-v1.json",
                      idempotency_key |-> idempotency_key[1],
                      transferor |-> Transferor,
                      transferee |-> Transferee,
                      transferee_emails |-> <<"transferee@example.com",
                                              "transferee@example.net",
                                              "transferee@example.org">>,
                      tracking_number |-> TrackingNumber,
                      po_number |-> PoNumber,
                      invoice_number |-> InvoiceNumber,
                      acquire_type |-> "Purchase",
                      note |-> "This is a test transfer.",
                      items |-> items] >>
    /\ pc' = "serialize"
    /\ UNCHANGED <<run, day, shipment_date, items, serial_numbers, idempotency_key,
                   json_payload, headers, requests, pending, wire, response, stdout,
                   result, error>>
    /\ UNCHANGED keyVars

\* main, line 173: serde_json::to_string_pretty, which cannot fail on this type
SerializePayload ==
    /\ pc = "serialize"
    /\ json_payload' = <<PayloadToJson(payload[1])>>
    /\ pc' = "headers"
    /\ UNCHANGED <<run, day, shipment_date, items, serial_numbers, idempotency_key,
                   payload, headers, requests, pending, wire, response, stdout,
                   result, error>>
    /\ UNCHANGED keyVars

\* send_post_request, lines 75-81; the ? on HeaderValue::from_str returns the
\* error to main, whose ? on line 174 returns it to the runtime
BuildHeaders ==
    /\ pc = "headers"
    /\ IF HeaderValueValid(AuthorizationValue)
       THEN /\ headers' = << <<"authorization", AuthorizationValue>>,
                             <<"content-type", "application/json">> >>
            /\ pc' = "send"
            /\ UNCHANGED <<result, error>>
       ELSE /\ error' = "InvalidHeaderValue"
            /\ result' = "Err"
            /\ pc' = "exit"
            /\ UNCHANGED headers
    /\ UNCHANGED <<run, day, shipment_date, items, serial_numbers, idempotency_key,
                   payload, json_payload, requests, pending, wire, response, stdout>>
    /\ UNCHANGED keyVars

\* send_post_request, lines 83-88: the request goes out and the task awaits
SendRequest ==
    /\ pc = "send"
    /\ LET req == [method |-> "POST", url |-> API_URL, headers |-> headers,
                   body |-> json_payload[1]]
       IN /\ requests' = Append(requests, req)
          /\ wire' = Append(wire, req)
    /\ pending' = pending \cup {Len(requests) + 1}
    /\ pc' = "await_response"
    /\ UNCHANGED <<run, day, shipment_date, items, serial_numbers, idempotency_key,
                   payload, json_payload, headers, response, stdout, result, error>>
    /\ UNCHANGED keyVars

\* ReceiveResponse with an error_for_status check: a status of 400 or more
\* is turned into an error
ReceiveResponseChecked(st) ==
    /\ pc = "await_response"
    /\ pending' = {}
    /\ response' = <<[status |-> st, body |-> <<>>]>>
    /\ IF st >= 400
       THEN /\ error' = "reqwest::Error(status)"
            /\ result' = "Err"
            /\ pc' = "exit"
            /\ UNCHANGED stdout
       ELSE /\ stdout' = Append(stdout, "HTTP Code: " \o StatusDisplay(st))
            /\ pc' = "await_body"
            /\ UNCHANGED <<result, error>>
    /\ UNCHANGED <<run, day, shipment_date, items, serial_numbers, idempotency_key,
                   payload, json_payload, headers, requests, wire>>
    /\ UNCHANGED keyVars

\* send_post_request, lines 89-91: the response head arrives, whatever its
\* status, and the status line is printed
ReceiveResponse(st) ==
    /\ pc = "await_response"
    /\ pending' = {}
    /\ response' = <<[status |-> st, body |-> <<>>]>>
    /\ stdout' = Append(stdout, "HTTP Code: " \o StatusDisplay(st))
    /\ pc' = "await_body"
    /\ UNCHANGED <<run, day, shipment_date, items, serial_numbers, idempotency_key,
                   payload, json_payload, headers, requests, wire, result, error>>
    /\ UNCHANGED keyVars

\* TransportError with one retry: the first failure sends the request again
TransportErrorRetry ==
    /\ pc = "await_response"
    /\ pending' = {}
    /\ IF Len(requests) < 2
       THEN /\ pc' = "send"
            /\ UNCHANGED <<result, error>>
       ELSE /\ error' = "reqwest::Error(send)"
            /\ result' = "Err"
            /\ pc' = "exit"
    /\ UNCHANGED <<run, day, shipment_date, items, serial_numbers, idempotency_key,
                   payload, json_payload, headers, requests, wire, response, stdout>>
    /\ UNCHANGED keyVars

\* send_post_request, line 89: send().await yields an error, returned by ?
TransportError ==
    /\ pc = "await_response"
    /\ pending' = {}
    /\ error' = "reqwest::Error(send)"
    /\ result' = "Err"
    /\ pc' = "exit"
    /\ UNCHANGED <<run, day, shipment_date, items, serial_numbers, idempotency_key,
                   payload, json_payload, headers, requests, wire, response, stdout>>
    /\ UNCHANGED keyVars

\* send_post_request, lines 92-93 and main, lines 174-176: the body is read
\* and printed, and both functions return Ok(())
ReceiveBody(text) ==
    /\ pc = "await_body"
    /\ response' = <<[response[1] EXCEPT !.body = <<text>>]>>
    /\ stdout' = Append(stdout, "Response: " \o text)
    /\ result' = "Ok"
    /\ pc' = "exit"
    /\ UNCHANGED <<run, day, shipment_date, items, serial_numbers, idempotency_key,
                   payload, json_payload, headers, requests, pending, wire, error>>
    /\ UNCHANGED keyVars

\* BodyError swallowed: an empty body is printed and Ok returned
BodyErrorSwallowed ==
    /\ pc = "await_body"
    /\ stdout' = Append(stdout, "Response: ")
    /\ result' = "Ok"
    /\ pc' = "exit"
    /\ UNCHANGED <<run, day, shipment_date, items, serial_numbers, idempotency_key,
                   payload, json_payload, headers, requests, pending, wire, response,
                   error>>
    /\ UNCHANGED keyVars

\* BodyError answered by awaiting the response again
BodyErrorRewaits ==
    /\ pc = "await_body"
    /\ pc' = "await_response"
    /\ pending' = {Len(requests)}
    /\ response' = <<>>
    /\ stdout' = <<>>
    /\ UNCHANGED <<run, day, shipment_date, items, serial_numbers, idempotency_key,
                   payload, json_payload, headers, requests, wire, result, error>>
    /\ UNCHANGED keyVars

\* send_post_request, line 92: text().await yields an error, returned by ?
\* before println! runs
BodyError ==
    /\ pc = "await_body"
    /\ error' = "reqwest::Error(body)"
    /\ result' = "Err"
    /\ pc' = "exit"
    /\ UNCHANGED <<run, day, shipment_date, items, serial_numbers, idempotency_key,
                   payload, json_payload, headers, requests, pending, wire, response,
                   stdout>>
    /\ UNCHANGED keyVars

\* the process has exited and the program is run again (a new process): all
\* of its state is fresh; the clock and what reached the network remain
Rerun ==
    /\ pc = "exit"
    /\ run < MaxRuns
    /\ run' = run + 1
    /\ pc' = "start"
    /\ shipment_date' = ""
    /\ items' = <<>>
    /\ serial_numbers' = <<>>
    /\ idempotency_key' = <<>>
    /\ payload' = <<>>
    /\ json_payload' = <<>>
    /\ headers' = <<>>
    /\ requests' = <<>>
    /\ pending' = {}
    /\ response' = <<>>
    /\ stdout' = <<>>
    /\ result' = "running"
    /\ error' = "none"
    /\ UNCHANGED <<day, wire>>
    /\ UNCHANGED keyVars

\* the steps the program takes by itself
ProgramStep ==
    \/ \E elapsed \in 0..MaxDays : Begin(elapsed)
    \/ ComputeKey
    \/ AssemblePayload
    \/ SerializePayload
    \/ BuildHeaders
    \/ SendRequest

\* the completions the awaited I/O delivers
SendCompletes == (\E st \in HttpStatuses : ReceiveResponse(st)) \/ TransportError
BodyCompletes == (\E text \in ResponseBodies : ReceiveBody(text)) \/ BodyError

Next ==
    \/ \E elapsed \in 0..MaxDays : Begin(elapsed)
    \/ ComputeKey
    \/ AssemblePayload
    \/ SerializePayload
    \/ BuildHeaders
    \/ SendRequest
    \/ \E st \in HttpStatuses : ReceiveResponse(st)
    \/ TransportError
    \/ \E text \in ResponseBodies : ReceiveBody(text)
    \/ BodyError
    \/ Rerun

Spec == Init /\ [][Next]_vars

\* the running program keeps taking its steps, and every awaited send and
\* body read completes, with a response or with an error
LiveSpec == Spec /\ WF_vars(ProgramStep) /\ WF_vars(SendCompletes) /\ WF_vars(BodyCompletes)

----------------------------------------------------------------------------
\* The key generator called on its own, on arguments drawn from small sets

KeyArgs(date, transferor, transferee, tracking_number, po_number, invoice_number, serials) ==
    [shipment_date |-> date, transferor |-> transferor, transferee |-> transferee,
     tracking_number |-> tracking_number, po_number |-> po_number,
     invoice_number |-> invoice_number, serial_numbers |-> serials]

\* all the lists of at most n strings of the set values
RECURSIVE ListsUpTo(_, _)
ListsUpTo(values, n) ==
    IF n = 0 THEN {<<>>}
    ELSE LET shorter == ListsUpTo(values, n - 1)
         IN shorter \cup {Append(l, v) : l \in {x \in shorter : Len(x) = n - 1}, v \in values}

KeyInputs ==
    {KeyArgs("2024-01-01", "T1", "T2", "TRK1", "PO1", "INV1", l) :
        l \in ListsUpTo({"S1", "S2", ""}, MaxSerials)}
    \cup {KeyArgs("", "", "", "", "", "", l) : l \in ListsUpTo({"S1", "S2", ""}, MaxSerials)}
    \cup {KeyArgs("2024-01-01", "T1", "T2", "TRK1", "PO1", "INV1\nS1", l) :
        l \in ListsUpTo({"S1", "S2", ""}, MaxSerials)}

PairInputs ==
    {KeyArgs("2024-01-01", "T1", "T2", "TRK1", "PO1", inv, l) :
        inv \in {"INV1", "INV1\n"}, l \in ListsUpTo({"S1", ""}, MaxSerials)}

\* let data = format!(...), on the arguments of the next call
FormatData ==
    /\ kpc = "format"
    /\ Len(kkeys) < Len(kargs)
    /\ LET a == kargs[Len(kkeys) + 1]
       IN kdata' = KeyData(a.shipment_date, a.transferor, a.transferee, a.tracking_number,
                           a.po_number, a.invoice_number, a.serial_numbers)
    /\ kpc' = "new"
    /\ UNCHANGED <<kargs, kkeys, hasher>>
    /\ UNCHANGED mainVars

\* a hasher kept from one call to the next
NewHasherReused ==
    /\ kpc = "new"
    /\ kpc' = "update"
    /\ UNCHANGED <<kargs, kkeys, kdata, hasher>>
    /\ UNCHANGED mainVars

\* let mut hasher = Sha256::new(): every call starts from an empty hasher
NewHasher ==
    /\ kpc = "new"
    /\ hasher' = Sha256New
    /\ kpc' = "update"
    /\ UNCHANGED <<kargs, kkeys, kdata>>
    /\ UNCHANGED mainVars

\* hasher.update(data.as_bytes())
UpdateHasher ==
    /\ kpc = "update"
    /\ hasher' = Sha256Update(hasher, AsBytes[kdata])
    /\ kpc' = "finalize"
    /\ UNCHANGED <<kargs, kkeys, kdata>>
    /\ UNCHANGED mainVars

\* format!("{:x}", hasher.finalize()), returned to the caller; finalize
\* consumes the hasher, which nothing reads afterwards
FinalizeHasher ==
    /\ kpc = "finalize"
    /\ kkeys' = Append(kkeys, LowerHex[Sha256Finalize(hasher)])
    /\ kpc' = "format"
    /\ UNCHANGED <<kargs, kdata, hasher>>
    /\ UNCHANGED mainVars

KeyNext ==
    \/ FormatData
    \/ NewHasher
    \/ UpdateHasher
    \/ FinalizeHasher

\* the same arguments passed MaxCalls times
KeyInit == MainInit /\ KeyIdle /\ kargs \in {[i \in 1..MaxCalls |-> a] : a \in KeyInputs}
SpecKey == KeyInit /\ [][KeyNext]_vars

\* two calls on any two argument tuples
PairInit == MainInit /\ KeyIdle /\ kargs \in {<<a, b>> : a \in PairInputs, b \in PairInputs}
SpecPair == PairInit /\ [][KeyNext]_vars

----------------------------------------------------------------------------
\* Properties of the key generator

ExampleArgs == KeyArgs("2024-01-01", "T1", "T2", "TRK1", "PO1", "INV1", <<"S1", "S2">>)
\* SHA-256 of "2024-01-01\nT1\nT2\nTRK1\nPO1\nINV1\nS1\nS2", computed with sha256sum
ExampleDigest == "925d1aaea40d62099c910cdbfa5a794f71541e91ae6ee6b992b581aa3559c9d6"

ScalarsOf(a) == <<a.shipment_date, a.transferor, a.transferee, a.tracking_number,
                  a.po_number, a.invoice_number>>

\* every element, scalar or serial, joined by single newlines
JoinedLines(a) == Join(ScalarsOf(a) \o a.serial_numbers, "\n")

\* as JoinedLines, but an empty serial list leaves a newline after the invoice number
JoinedLinesOrTrailing(a) == IF a.serial_numbers = <<>> THEN Join(ScalarsOf(a), "\n") \o "\n"
                            ELSE JoinedLines(a)

\* C1 as stated: every key returned is the lowercase-hex SHA-256 of the six
\* scalar fields and the serial numbers, in order, joined by single newlines,
\* the empty serial list included.
C1_JoinedByNewlines ==
    \A i \in DOMAIN kkeys : kkeys[i] = LowerHex[Sha256[AsBytes[JoinedLines(kargs[i])]]]

\* C1 amended: the key is the lowercase-hex SHA-256 of the scalar fields and the
\* serial numbers joined by single newlines, except that with an empty serial
\* list the hashed string ends with a newline after the invoice number; for the
\* arguments of the spec's example it is the digest of the spec's example string.
C1_KeyIsHashOfCanonicalString ==
    \A i \in DOMAIN kkeys :
        /\ kkeys[i] = LowerHex[Sha256[AsBytes[JoinedLinesOrTrailing(kargs[i])]]]
        /\ kargs[i] = ExampleArgs => kkeys[i] = ExampleDigest

C1_Witness ==
    /\ Len(kkeys) >= 1
    /\ kargs[1].serial_numbers = <<>>
    /\ kargs[1].invoice_number = "INV1"

\* C2: two calls whose argument tuples differ in a scalar field or in the
\* serial-number sequence return different keys.
C2_DistinctInputsDistinctKeys ==
    (Len(kkeys) = 2 /\ kargs[1] # kargs[2]) => kkeys[1] # kkeys[2]

IsLowerHex64(str) ==
    /\ Len(str) = 64
    /\ \A i \in 1..Len(str) : \E j \in 1..16 : SubSeq(str, i, i) = HexChars[j]

\* C4: every call returns 64 characters, each in 0-9 or a-f, and calls on
\* the same arguments return the same string.
C4_DeterministicFixedLength ==
    /\ \A i \in DOMAIN kkeys : IsLowerHex64(kkeys[i])
    /\ \A i, j \in DOMAIN kkeys : kargs[i] = kargs[j] => kkeys[i] = kkeys[j]

\* two calls on the same arguments have returned, the second after the
\* hasher of the first had absorbed its data
C4_Witness ==
    /\ Len(kkeys) = 2
    /\ kargs[1] = kargs[2]
    /\ kargs[1] = KeyArgs("", "", "", "", "", "", <<>>)
    /\ hasher = AsBytes[kdata]
    /\ kkeys[1] = kkeys[2]

----------------------------------------------------------------------------
\* Properties of a run

\* the member of a serialised payload that holds the given struct field
PayloadMember(obj, field) ==
    obj[CHOOSE i \in 1..Len(PayloadFields) : PayloadFields[i].field = field][2]
ItemMember(obj, field) ==
    obj[CHOOSE i \in 1..Len(ItemFields) : ItemFields[i].field = field][2]

BodySerials(body) == LET its == PayloadMember(body, "items")
                     IN [i \in 1..Len(its) |-> ItemMember(its[i], "serial")]

SameShipment(b1, b2) ==
    /\ \A f \in {"transferor", "transferee", "tracking_number", "po_number", "invoice_number"} :
            PayloadMember(b1, f) = PayloadMember(b2, f)
    /\ BodySerials(b1) = BodySerials(b2)

\* C3: any two requests put on the wire, by the same run or by a later run,
\* that carry the same shipment carry the same idempotency key.
C3_SameShipmentSameKey ==
    \A i, j \in DOMAIN wire :
        SameShipment(wire[i].body, wire[j].body)
            => PayloadMember(wire[i].body, "idempotency_key")
                 = PayloadMember(wire[j].body, "idempotency_key")

\* C5: a run issues at most one request and has at most one in flight; once
\* the headers are built and the send step is passed it has issued exactly
\* one, a POST to the fixed URL; no run adds a second request to the wire.
C5_AtMostOnePost ==
    /\ Len(requests) <= 1
    /\ Cardinality(pending) <= 1
    /\ Len(wire) <= run
    /\ \A i \in DOMAIN requests : requests[i].method = "POST" /\ requests[i].url = API_URL
    /\ (pc \in {"await_response", "await_body", "exit"} /\ headers # <<>>)
            => Len(requests) = 1
    /\ headers = <<>> => requests = <<>>

C5_Witness ==
    /\ pc = "exit"
    /\ error = "reqwest::Error(send)"
    /\ Len(requests) = 1
    /\ requests[1].url = "https://cloud.fastbound.com/api/transfers"

BodyRead == response # <<>> /\ response[1].body # <<>>

C6_State ==
    /\ pc = "exit" => /\ result \in {"Ok", "Err"}
                      /\ result = "Ok" <=> BodyRead
                      /\ result = "Err" <=> error # "none"
    /\ error # "none" =>
          /\ pc = "exit"
          /\ result = "Err"
          /\ pending = {}
          /\ ~BodyRead
          /\ \A i \in DOMAIN stdout : SubSeq(stdout[i], 1, 10) # "Response: "
          /\ Len(requests) <= 1

\* C6: a run that ends without a response body read ends in error; once an
\* error is returned the run is at its exit with result Err, nothing in
\* flight and no response line printed, and the only step that follows is a
\* new run of the program.
C6_FailureAbortsRun ==
    /\ []C6_State
    /\ [][error # "none" => run' = run + 1]_vars

C6_Witness ==
    /\ error = "reqwest::Error(body)"
    /\ result = "Err"
    /\ stdout = <<"HTTP Code: 200 OK">>

\* C7: once a response has arrived its status line is the first line printed,
\* whatever the status, and the only error that can follow is a failed body
\* read; once the body is read the run returns Ok having printed exactly the
\* status line and then the body line.
C7_StatusIndependent ==
    /\ response # <<>> =>
          /\ Len(stdout) >= 1
          /\ stdout[1] = "HTTP Code: " \o StatusDisplay(response[1].status)
          /\ error \in {"none", "reqwest::Error(body)"}
    /\ BodyRead =>
          /\ result = "Ok"
          /\ error = "none"
          /\ stdout = <<"HTTP Code: " \o StatusDisplay(response[1].status),
                        "Response: " \o response[1].body[1]>>

C7_Witness ==
    /\ response # <<>>
    /\ response[1].status = 500
    /\ response[1].body = <<"OK">>
    /\ result = "Ok"
    /\ stdout = <<"HTTP Code: 500 Internal Server Error", "Response: OK">>

Range(seq) == {seq[i] : i \in DOMAIN seq}

SpecPayloadKeys == {"$schema", "idempotencyKey", "transferor", "transferee",
                    "transfereeEmails", "trackingNumber", "poNumber", "invoiceNumber",
                    "acquireType", "note", "items"}
SpecItemKeys == {"manufacturer", "importer", "country", "model", "caliber", "type",
                 "serial", "sku", "mpn", "upc", "barrelLength", "overallLength",
                 "cost", "price", "condition", "note"}

\* C8: every request body is the serialised payload, verbatim, whose top-level
\* keys are the spec's wire names and whose items have the spec's item keys.
C8_WireFieldNames ==
    \A i \in DOMAIN requests :
        /\ requests[i].body = json_payload[1]
        /\ Range(JsonKeys(requests[i].body)) = SpecPayloadKeys
        /\ \A j \in DOMAIN PayloadMember(requests[i].body, "items") :
              Range(JsonKeys(PayloadMember(requests[i].body, "items")[j])) = SpecItemKeys

\* C9: while the send is awaited no step of the program is enabled (there is
\* no timeout and no cancellation), nothing has been printed and main has not
\* returned; and when every awaited send and body read completes, every run
\* reaches its exit with Ok or Err.
C9_BlocksUntilCompletion ==
    /\ [](pc = "await_response" =>
            (~ENABLED ProgramStep) /\ stdout = <<>> /\ result = "running")
    /\ (pc # "exit") ~> (pc = "exit" /\ result \in {"Ok", "Err"})

C9_Witness ==
    /\ pc = "await_response"
    /\ pending = {1}
    /\ stdout = <<>>

\* C10: the key in the payload is the key of the payload's own transferor,
\* transferee, tracking, PO and invoice numbers and of its items' serials in
\* item order, at the date read by this run; it exists before the payload
\* does, and every request carries that payload serialised.
C10_KeyMatchesPayload ==
    /\ payload # <<>> =>
          LET p == payload[1]
          IN /\ p.idempotency_key =
                   generate_idempotency_key(shipment_date, p.transferor, p.transferee,
                       p.tracking_number, p.po_number, p.invoice_number,
                       [i \in 1..Len(p.items) |-> p.items[i].serial])
             /\ idempotency_key = <<p.idempotency_key>>
             /\ Len(p.items) = Len(HardcodedItems)
    /\ \A i \in DOMAIN requests :
          /\ payload # <<>>
          /\ requests[i].body = PayloadToJson(payload[1])
          /\ BodySerials(requests[i].body) = serial_numbers

C10_Witness ==
    /\ Len(requests) = 1
    /\ payload # <<>>
    /\ BodySerials(requests[1].body) = <<"ABC123456", "XYZ987654">>

====
